---- MODULE Spec2Model ----
(***************************************************************************)
(* Model of the album manager's request authentication and delivery        *)
(* pipeline: src/api/api.py (the Lambda handlers zip_handler and           *)
(* webhook_handler with validate_request, verify_paypal_webhook,           *)
(* generate_presigned_url, send_email, store_webhook_event) and            *)
(* src/app/app2.py (the client's send_signed_request, get_hmac_key and     *)
(* its cache, upload_file_to_s3 with validate_s3_key_name, and the         *)
(* ProgressPercentage callback shared by the chunk-upload threads).        *)
(*                                                                         *)
(* Strings are sequences of one-character strings.  A Python value that    *)
(* may be None, a string or something else is a record with a tag t:       *)
(* Absent (None / key missing), Str(s), Num (a truthy non-string).         *)
(* HMAC-SHA256 is modelled symbolically: the digest of (key, message) is   *)
(* the record naming both, so two digests are equal iff key and message    *)
(* are equal.                                                              *)
(***************************************************************************)
EXTENDS Naturals, Sequences, FiniteSets, TLC

VARIABLES
    zpc,        \* position of the zip_handler invocation
    zevent,     \* the Lambda event zip_handler was invoked with
    zlocals,    \* zip_handler's local variables
    zresp,      \* the response zip_handler returned
    zeffects,   \* calls to AWS services made by the invocation, in order
    zlog,       \* lines printed by the invocation
    winst,      \* webhook_handler invocations, one per Lambda instance
    audit,      \* the items of the PayPalWebhooks table
    outbox,     \* the emails SES accepted from send_email, in order
    deliveries, \* webhook deliveries so far
    uuids,      \* uuid.uuid4() calls so far
    cpc,        \* position of the client's send_signed_request call
    creq,       \* its arguments: data and request_type
    chdr,       \* headers['X-Signature'] as the client set it
    cwire,      \* the request as it reaches the API
    cresult,    \* what send_signed_request returned
    ceffects,   \* the client's parameter store calls
    clog,       \* the client's st.error lines
    vresult,    \* what validate_request made of the client's request
    lpc,        \* position of a direct call of generate_presigned_url
    lcall,      \* its arguments
    lresult,    \* what it returned, the calls it made, the lines it printed
    now,        \* the Streamlit process's clock, in seconds
    stored,     \* the HMAC key as the parameter store holds it
    kcache,     \* the st.cache_data entry of get_hmac_key
    klast,      \* the last get_hmac_key call: what it returned, whether it fetched
    upc,        \* position of the upload_file_to_s3 call
    ureq,       \* its arguments
    ueffects,   \* the calls it made
    uresult,    \* what it returned
    plock,      \* ProgressPercentage._lock: free, or held by a thread
    pseen,      \* ProgressPercentage._seen_so_far
    pthreads,   \* the transfer threads: position in __call__, argument, scratch
    pcalls,     \* the bytes_amount of every __call__ made so far, in order
    preported   \* the counter values written to stdout, in order

zvars == <<zpc, zevent, zlocals, zresp, zeffects, zlog>>
wvars == <<winst, audit, outbox, deliveries, uuids>>

cvars == <<cpc, creq, chdr, cwire, cresult, ceffects, clog, vresult>>
lvars == <<lpc, lcall, lresult>>
kvars == <<now, stored, kcache, klast>>
uvars == <<upc, ureq, ueffects, uresult>>
pvars == <<plock, pseen, pthreads, pcalls, preported>>

vars == <<zpc, zevent, zlocals, zresp, zeffects, zlog,
          winst, audit, outbox, deliveries, uuids,
          cpc, creq, chdr, cwire, cresult, ceffects, clog, vresult,
          lpc, lcall, lresult, now, stored, kcache, klast,
          upc, ureq, ueffects, uresult,
          plock, pseen, pthreads, pcalls, preported>>

-----------------------------------------------------------------------------
(* Bounds *)

MaxNameChars == 4      \* Len(client_name) + Len(album_name) of a request
MaxDeliveries == 2     \* webhook deliveries in one behaviour
MaxThreads == 3        \* transfer threads sharing one ProgressPercentage
MaxCalls == 4          \* calls of the progress callback during one upload

-----------------------------------------------------------------------------
(* Strings and Python values *)

Absent == [t |-> "absent"]
Num == [t |-> "num"]
Str(s) == [t |-> "str", s |-> s]

IsStr(v) == v.t = "str"

\* Python truthiness of None, a string or a non-zero number
Truthy(v) == CASE v.t = "absent" -> FALSE
               [] v.t = "str" -> v.s # <<>>
               [] OTHER -> TRUE

Range(seq) == {seq[i] : i \in 1..Len(seq)}

Contains(s, sub) ==
    \E i \in 1..(Len(s) + 1 - Len(sub)) : SubSeq(s, i, i + Len(sub) - 1) = sub

StartsWith(s, pre) == Len(s) >= Len(pre) /\ SubSeq(s, 1, Len(pre)) = pre

\* str.replace(old, new): leftmost non-overlapping occurrences, left to right
RECURSIVE Replace(_, _, _)
Replace(s, old, new) ==
    IF Len(s) < Len(old) THEN s
    ELSE IF SubSeq(s, 1, Len(old)) = old
         THEN new \o Replace(SubSeq(s, Len(old) + 1, Len(s)), old, new)
         ELSE <<s[1]>> \o Replace(Tail(s), old, new)

SeqsUpTo(S, n) == UNION {[1..k -> S] : k \in 0..n}

NameChars == {".", "/", "a"}

\* A code point above 127, as one character of a header value
NonAsciiChar == "U+00E9"

-----------------------------------------------------------------------------
(* Texts on the wire: request bodies and header values *)

\* A header value: characters as received, or the base64 text of a digest
Raw(chars) == [raw |-> chars]
Base64(digest) == [b64 |-> digest]
Text(x) == [t |-> "text", x |-> x]

IsRaw(x) == "raw" \in DOMAIN x
TextEmpty(x) == IsRaw(x) /\ x.raw = <<>>
IsAscii(x) == IsRaw(x) => \A i \in 1..Len(x.raw) : x.raw[i] # NonAsciiChar

\* `not v` for a header value
HeaderFalsy(v) == v.t = "absent" \/ TextEmpty(v.x)

\* The text of a body: '' , text that is no JSON, a JSON array, a JSON object
EmptyText == [json |-> "empty"]
InvalidJson == [json |-> "invalid"]
JsonArray == [json |-> "array"]
JsonObject(c, a, e) ==
    [json |-> "object", client_name |-> c, album_name |-> a, email |-> e]

\* event['body']: the key missing, null, or a text
BodyMissing == [kind |-> "missing"]
BodyNull == [kind |-> "null"]
BodyText(x) == [kind |-> "text", text |-> x]

-----------------------------------------------------------------------------
(* Signer / verifier: api.py *)

HmacKey == "K1"      \* the value of /album-manager/dev/hmac_key
OtherKey == "K2"     \* any other key

HmacSha256(key, msgBytes) == [alg |-> "HMAC-SHA256", key |-> key, msg |-> msgBytes]

\* hmac.new(key, msg) with msg None hashes nothing: the digest of b''
MessageBytes(message) == IF message.kind = "text" THEN message.text ELSE EmptyText

ApiGenerateHmacSignature(secret_key, message) ==
    Base64(HmacSha256(secret_key, MessageBytes(message)))

\* hmac.compare_digest on two str: TypeError unless both are ASCII
CompareDigest(a, b) ==
    IF IsAscii(a) /\ IsAscii(b) THEN (IF a = b THEN "equal" ELSE "differ")
    ELSE "TypeError"

Response(code, err) == [statusCode |-> code, error |-> err]
NoResponse == [statusCode |-> 0, error |-> ""]
Accepted == [statusCode |-> 0, error |-> "", valid |-> TRUE]

SsmOutcomes == {"value", "ClientError", "Error"}
SsmGet(name, outcome) == [op |-> "ssm_get", name |-> name, outcome |-> outcome]

MissingSignature_IsNone(received_signature) == received_signature.t = "absent"

MissingSignature(received_signature) == HeaderFalsy(received_signature)

\* event.get('body', '')
RequestContent(event) ==
    IF event.body.kind = "missing" THEN BodyText(EmptyText) ELSE event.body

\* the response when the key cannot be had: get_secret_from_ssm returned None
\* (ClientError), or another exception reached validate_request's except
SecretFailure_Forbidden(ssm) == Response(403, "Authentication failed")

SecretFailure(ssm) ==
    IF ssm = "ClientError" THEN Response(500, "Failed to retrieve HMAC key")
    ELSE Response(500, "Internal server error")

\* validate_request: Accepted for True, else the response; with the calls made
\* and the lines printed
ValidateRequest(event, ssm) ==
    LET received_signature == event.headers.X_Signature
        fetch == <<SsmGet("hmac_key", ssm)>>
        generated_signature ==
            ApiGenerateHmacSignature(HmacKey, RequestContent(event))
        cmp == CompareDigest(received_signature.x, generated_signature)
    IN  IF MissingSignature(received_signature)
        THEN [result |-> Response(401, "Missing X-Signature header"),
              effects |-> <<>>, log |-> <<>>]
        ELSE IF ssm = "Error"
        THEN [result |-> SecretFailure(ssm),
              effects |-> fetch, log |-> <<"Error in validate_request">>]
        ELSE IF ssm = "ClientError"
        THEN [result |-> SecretFailure(ssm),
              effects |-> fetch, log |-> <<"Failed to retrieve parameter">>]
        ELSE IF cmp = "TypeError"
        THEN [result |-> Response(500, "Internal server error"),
              effects |-> fetch, log |-> <<"Error in validate_request">>]
        ELSE IF cmp = "equal"
        THEN [result |-> Accepted, effects |-> fetch, log |-> <<>>]
        ELSE [result |-> Response(403, "Authentication failed"),
              effects |-> fetch, log |-> <<>>]

-----------------------------------------------------------------------------
(* zip_handler: api.py *)

S3_EXP == 3600

BucketName == <<"b", "k", "t">>
SenderEmail == <<"s", "@", "n">>

\* client_name.replace('/', '_').replace('..', '_')
SanitizeName_SlashOnly(name) == Replace(name, <<"/">>, <<"_">>)

SanitizeName(name) ==
    Replace(Replace(name, <<"/">>, <<"_">>), <<".", ".">>, <<"_">>)

\* f'clients/{client_name}/{album_name}/'
AlbumDir(client_name, album_name) ==
    <<"c", "l", "i", "e", "n", "t", "s", "/">> \o client_name \o <<"/">>
        \o album_name \o <<"/">>

\* f'zipped-albums/{client_name}/{album_name}.zip'
ZipFileKey(client_name, album_name) ==
    <<"z", "i", "p", "p", "e", "d", "-", "a", "l", "b", "u", "m", "s", "/">>
        \o client_name \o <<"/">> \o album_name \o <<".", "z", "i", "p">>

\* json.loads(event.get('body', '{}')) followed by the three body.get calls:
\* the fields, or "raise" (TypeError, JSONDecodeError, AttributeError)
ParseZipBody(event) ==
    IF event.body.kind = "missing"
    THEN [raise |-> FALSE, client_name |-> Absent, album_name |-> Absent,
          email |-> Absent]
    ELSE IF event.body.kind = "null" \/ event.body.text.json # "object"
    THEN [raise |-> TRUE]
    ELSE [raise |-> FALSE, client_name |-> event.body.text.client_name,
          album_name |-> event.body.text.album_name,
          email |-> event.body.text.email]

\* '@' in email
HasAt(email) == "@" \in Range(email)

PresignedUrl(bucket, key, ttl) == [bucket |-> bucket, key |-> key, ttl |-> ttl]

ZipAlbumCall(dir, key) == [op |-> "zip_album", dir |-> dir, key |-> key]

\* what zip_album(album_dir, zip_file_key) does once called: its body is
\* `pass`, no archive is written and nothing is uploaded
ZipAlbum(album_dir, zip_file_key) == <<>>
S3Presign(bucket, key, ttl, outcome) ==
    [op |-> "s3_presign", bucket |-> bucket, key |-> key, ttl |-> ttl,
     outcome |-> outcome]
DynamoPut(table, item, outcome) ==
    [op |-> "dynamo_put", table |-> table, item |-> item, outcome |-> outcome]
SesSend(source, to, link, outcome) ==
    [op |-> "ses_send", source |-> source, to |-> to, link |-> link,
     outcome |-> outcome]

CallOutcomes == {"ok", "Error"}

NoLocals == [client_name |-> Absent, album_name |-> Absent, email |-> Absent,
             album_dir |-> <<>>, zip_file_key |-> <<>>, bucket_env |-> FALSE,
             presigned_url |-> Absent]

InternalError == Response(500, "Internal server error")

\* as ZipFail, but a failure of the email step is answered with success
ZipFail_EmailNotFatal(effects, lines) ==
    /\ zpc' = "done"
    /\ zresp' = IF "Error sending email" \in Range(lines)
                THEN [statusCode |-> 200, error |-> "",
                      message |-> "Album processed successfully",
                      download_link |-> zlocals.presigned_url]
                ELSE InternalError
    /\ zeffects' = zeffects \o effects
    /\ zlog' = zlog \o lines \o <<"Error in zip_handler">>
    /\ UNCHANGED <<zevent, zlocals>>

\* the handler's except clause: print, respond 500
ZipFail(effects, lines) ==
    /\ zpc' = "done"
    /\ zresp' = InternalError
    /\ zeffects' = zeffects \o effects
    /\ zlog' = zlog \o lines \o <<"Error in zip_handler">>
    /\ UNCHANGED <<zevent, zlocals>>

ZipEmails == {Absent, Str(<<"a", "@", "b">>), Str(<<"a", "b">>)}

NameVals(n) == {Absent, Num} \cup {Str(s) : s \in SeqsUpTo(NameChars, n)}
NameSize(v) == IF IsStr(v) THEN Len(v.s) ELSE 0

\* X-Signature values a caller may send with body
Signatures(body) ==
    {Absent, Text(Raw(<<>>)), Text(Raw(<<"x">>)), Text(Raw(<<NonAsciiChar>>)),
     Text(ApiGenerateHmacSignature(HmacKey, body)),
     Text(ApiGenerateHmacSignature(OtherKey, body)),
     Text(ApiGenerateHmacSignature(HmacKey, BodyText(InvalidJson)))}

OtherBodies ==
    {BodyMissing, BodyNull, BodyText(EmptyText), BodyText(InvalidJson),
     BodyText(JsonArray)}

Event(sig, body) == [headers |-> [X_Signature |-> sig], body |-> body]

\* API Gateway invokes the function; the names of a request have at most
\* MaxNameChars characters together
ZipInvoke ==
    /\ zpc = "idle"
    /\ \/ \E b \in OtherBodies : \E sig \in Signatures(b) :
             zevent' = Event(sig, b)
       \/ \E c \in NameVals(MaxNameChars) :
             \E a \in NameVals(MaxNameChars - NameSize(c)) :
               \E e \in ZipEmails :
                 LET b == BodyText(JsonObject(c, a, e))
                 IN  \E sig \in Signatures(b) : zevent' = Event(sig, b)
    /\ zpc' = "validate"
    /\ UNCHANGED <<zlocals, zresp, zeffects, zlog>>

\* validate_request(event) and the early return
ZipValidate ==
    /\ zpc = "validate"
    /\ \E ssm \in SsmOutcomes :
          LET v == ValidateRequest(zevent, ssm)
          IN  /\ zeffects' = zeffects \o v.effects
              /\ zlog' = zlog \o v.log
              /\ IF v.result = Accepted
                 THEN zpc' = "prepare" /\ UNCHANGED zresp
                 ELSE zpc' = "done" /\ zresp' = v.result
    /\ UNCHANGED <<zevent, zlocals>>

\* parse the body, check the fields, sanitize, build the keys, find the bucket
ZipPrepare ==
    /\ zpc = "prepare"
    /\ \E bucket_env \in BOOLEAN, ssm \in SsmOutcomes :
          LET body == ParseZipBody(zevent)
              fetch == IF bucket_env THEN <<>> ELSE <<SsmGet("s3_bucket_name", ssm)>>
          IN  IF body.raise
              THEN ZipFail(<<>>, <<>>)
              ELSE IF ~(Truthy(body.client_name) /\ Truthy(body.album_name)
                        /\ Truthy(body.email))
              THEN /\ zpc' = "done"
                   /\ zresp' = Response(400,
                         "Missing required fields: client_name, album_name, email")
                   /\ UNCHANGED <<zevent, zlocals, zeffects, zlog>>
              ELSE IF ~(IsStr(body.client_name) /\ IsStr(body.album_name))
              THEN ZipFail(<<>>, <<>>)
              ELSE IF ~bucket_env /\ ssm = "Error"
              THEN ZipFail(fetch, <<>>)
              ELSE IF ~bucket_env /\ ssm = "ClientError"
              THEN ZipFail(fetch, <<"Failed to retrieve parameter">>)
              ELSE LET client_name == SanitizeName(body.client_name.s)
                       album_name == SanitizeName(body.album_name.s)
                   IN  /\ zlocals' = [zlocals EXCEPT
                             !.client_name = Str(client_name),
                             !.album_name = Str(album_name),
                             !.email = body.email,
                             !.album_dir = AlbumDir(client_name, album_name),
                             !.zip_file_key = ZipFileKey(client_name, album_name),
                             !.bucket_env = bucket_env]
                       /\ zeffects' = zeffects \o fetch
                       /\ zpc' = "package"
                       /\ UNCHANGED <<zevent, zresp, zlog>>

\* zip_album (a placeholder that does nothing), then generate_presigned_url
ZipPackage ==
    /\ zpc = "package"
    /\ \E presign \in CallOutcomes :
          LET calls == <<ZipAlbumCall(zlocals.album_dir, zlocals.zip_file_key)>>
                         \o ZipAlbum(zlocals.album_dir, zlocals.zip_file_key)
                         \o <<S3Presign(BucketName, zlocals.zip_file_key, S3_EXP, presign)>>
          IN  IF presign = "Error"
              THEN ZipFail(calls, <<"Error generating presigned URL">>)
              ELSE /\ zlocals' = [zlocals EXCEPT !.presigned_url =
                         PresignedUrl(BucketName, zlocals.zip_file_key, S3_EXP)]
                   /\ zeffects' = zeffects \o calls
                   /\ zpc' = "store"
                   /\ UNCHANGED <<zevent, zresp, zlog>>

\* as ZipStore, but a failure is raised only after the item was written
ZipStore_RaisesAfterWrite ==
    /\ zpc = "store"
    /\ \E put \in CallOutcomes :
          LET item == [clientName |-> zlocals.client_name,
                       albumName |-> zlocals.album_name,
                       zipFileKey |-> zlocals.zip_file_key,
                       email |-> zlocals.email,
                       downloadLink |-> zlocals.presigned_url]
              calls == <<DynamoPut("AlbumDetails", item, "ok")>>
          IN  IF put = "Error"
              THEN ZipFail(calls, <<"Error storing album details in DynamoDB">>)
              ELSE /\ zeffects' = zeffects \o calls
                   /\ zpc' = "email"
                   /\ UNCHANGED <<zevent, zlocals, zresp, zlog>>

\* store_album_details_in_dynamodb (albumID, createdAt, expiresAt left out)
ZipStore ==
    /\ zpc = "store"
    /\ \E put \in CallOutcomes :
          LET item == [clientName |-> zlocals.client_name,
                       albumName |-> zlocals.album_name,
                       zipFileKey |-> zlocals.zip_file_key,
                       email |-> zlocals.email,
                       downloadLink |-> zlocals.presigned_url]
              calls == <<DynamoPut("AlbumDetails", item, put)>>
          IN  IF put = "Error"
              THEN ZipFail(calls, <<"Error storing album details in DynamoDB">>)
              ELSE /\ zeffects' = zeffects \o calls
                   /\ zpc' = "email"
                   /\ UNCHANGED <<zevent, zlocals, zresp, zlog>>

\* send_email_with_download_link(email, zip_file_key) and the 200 response
ZipEmail ==
    /\ zpc = "email"
    /\ \E ssmBucket \in SsmOutcomes, sender_env \in BOOLEAN,
          ssmSender \in SsmOutcomes, presign \in CallOutcomes,
          ses \in CallOutcomes :
          LET fetchB == IF zlocals.bucket_env THEN <<>>
                        ELSE <<SsmGet("s3_bucket_name", ssmBucket)>>
              fetchS == IF sender_env THEN <<>>
                        ELSE <<SsmGet("ses_sender_email", ssmSender)>>
              link == PresignedUrl(BucketName, zlocals.zip_file_key, S3_EXP)
              sign == <<S3Presign(BucketName, zlocals.zip_file_key, S3_EXP, presign)>>
              send == <<SesSend(SenderEmail, zlocals.email.s, link, ses)>>
              failed == <<"Error sending email">>
          IN  IF ~zlocals.bucket_env /\ ssmBucket = "Error"
              THEN ZipFail(fetchB, failed)
              ELSE IF ~sender_env /\ ssmSender = "Error"
              THEN ZipFail(fetchB \o fetchS, failed)
              ELSE IF \/ ~zlocals.bucket_env /\ ssmBucket = "ClientError"
                      \/ ~sender_env /\ ssmSender = "ClientError"
              THEN ZipFail(fetchB \o fetchS, failed)
              ELSE IF ~HasAt(zlocals.email.s)
              THEN ZipFail(fetchB \o fetchS, failed)
              ELSE IF presign = "Error"
              THEN ZipFail(fetchB \o fetchS \o sign, failed)
              ELSE IF ses = "Error"
              THEN ZipFail(fetchB \o fetchS \o sign \o send, failed)
              ELSE /\ zeffects' = zeffects \o fetchB \o fetchS \o sign \o send
                   /\ zlog' = zlog \o <<"Email sent successfully">>
                   /\ zresp' = [statusCode |-> 200, error |-> "",
                                message |-> "Album processed successfully",
                                download_link |-> zlocals.presigned_url]
                   /\ zpc' = "done"
                   /\ UNCHANGED <<zevent, zlocals>>

ZipIdle ==
    /\ zpc = "idle"
    /\ zevent = Event(Absent, BodyMissing)
    /\ zlocals = NoLocals
    /\ zresp = NoResponse
    /\ zeffects = <<>>
    /\ zlog = <<>>

\* the response goes back to API Gateway; the next invocation starts afresh
ZipReturn ==
    /\ zpc = "done"
    /\ zpc' = "idle"
    /\ zevent' = Event(Absent, BodyMissing)
    /\ zlocals' = NoLocals
    /\ zresp' = NoResponse
    /\ zeffects' = <<>>
    /\ zlog' = <<>>

-----------------------------------------------------------------------------
(* webhook_handler: api.py *)

Instances == {"i1", "i2"}
InstanceOrder == [i \in Instances |-> IF i = "i1" THEN 1 ELSE 2]

\* the webhook body as JSON: resource.custom_id and resource.payer.email_address
\* are the fields custom_id and email
WebhookEvent(id, custom_id, email, event_type, state) ==
    [json |-> "object", id |-> id, event_type |-> event_type, state |-> state,
     custom_id |-> custom_id, email |-> email]

\* a completed capture (resource.state is "completed")
WebhookObject(id, custom_id, email) ==
    WebhookEvent(id, custom_id, email, "PAYMENT.CAPTURE.COMPLETED", "completed")

\* events of a purchase that is not completed, and of another type
OtherEvents ==
    {WebhookEvent(Str(<<"E", "1">>), Str(<<"p">>), Str(<<"a", "@", "b">>),
                  k.event_type, k.state) :
        k \in {[event_type |-> "PAYMENT.CAPTURE.PENDING", state |-> "pending"],
               [event_type |-> "PAYMENT.CAPTURE.DENIED", state |-> "denied"],
               [event_type |-> "CUSTOMER.DISPUTE.CREATED", state |-> "completed"]}}

EventIds == {Absent, Str(<<"E", "1">>), Str(<<"E", "2">>)}
PhotoIds == {Absent, Str(<<"p">>), Str(<<".", ".", "/", "p">>)}
PayerEmails == {Absent, Str(<<"a", "@", "b">>), Str(<<"a", "b">>)}

WebhookBodies ==
    {BodyNull, BodyText(InvalidJson), BodyText(JsonArray)}
    \cup {BodyText(WebhookObject(id, c, e)) :
             id \in EventIds, c \in PhotoIds, e \in PayerEmails}
    \cup {BodyText(x) : x \in OtherEvents}

PaypalOutcomes == {"SUCCESS", "FAILED", "non200", "badjson", "Timeout", "Error"}
PaypalVerify(outcome) == [op |-> "paypal_verify", outcome |-> outcome]

\* what the three credential fetches and the provider call come to
VerifyEnvs == [client_id : SsmOutcomes, client_secret : SsmOutcomes,
               webhook_id : SsmOutcomes, paypal : PaypalOutcomes]

\* every credential provisioned and readable
Provisioned(env) ==
    env.client_id = "value" /\ env.client_secret = "value" /\ env.webhook_id = "value"

\* as verify_paypal_webhook, but any 200 from the provider counts as verified
VerifyPaypalWebhook_Any200(env) ==
    LET call == <<SsmGet("paypal_client_id", env.client_id),
                  SsmGet("paypal_client_secret", env.client_secret),
                  SsmGet("paypal_webhook_id", env.webhook_id),
                  PaypalVerify(env.paypal)>>
    IN  IF Provisioned(env) /\ env.paypal \in {"SUCCESS", "FAILED"}
        THEN [ok |-> TRUE, effects |-> call, log |-> <<>>]
        ELSE [ok |-> FALSE, effects |-> call, log |-> <<>>]

\* as verify_paypal_webhook, but without the check of the three credentials
VerifyPaypalWebhook_NoCredentialCheck(env) ==
    LET call == <<SsmGet("paypal_client_id", env.client_id),
                  SsmGet("paypal_client_secret", env.client_secret),
                  SsmGet("paypal_webhook_id", env.webhook_id),
                  PaypalVerify(env.paypal)>>
    IN  [ok |-> env.paypal = "SUCCESS", effects |-> call, log |-> <<>>]

\* verify_paypal_webhook: the verdict, the calls made, the lines printed
VerifyPaypalWebhook(env) ==
    LET f1 == <<SsmGet("paypal_client_id", env.client_id)>>
        f2 == f1 \o <<SsmGet("paypal_client_secret", env.client_secret)>>
        f3 == f2 \o <<SsmGet("paypal_webhook_id", env.webhook_id)>>
        none(o) == IF o = "ClientError" THEN <<"Failed to retrieve parameter">>
                   ELSE <<>>
        raised == <<"Error verifying PayPal webhook">>
        call == f3 \o <<PaypalVerify(env.paypal)>>
    IN  IF env.client_id = "Error"
        THEN [ok |-> FALSE, effects |-> f1, log |-> raised]
        ELSE IF env.client_secret = "Error"
        THEN [ok |-> FALSE, effects |-> f2, log |-> none(env.client_id) \o raised]
        ELSE IF env.webhook_id = "Error"
        THEN [ok |-> FALSE, effects |-> f3,
              log |-> none(env.client_id) \o none(env.client_secret) \o raised]
        ELSE IF ~Provisioned(env)
        THEN [ok |-> FALSE, effects |-> f3,
              log |-> none(env.client_id) \o none(env.client_secret)
                        \o none(env.webhook_id)
                        \o <<"Failed to retrieve PayPal credentials from SSM">>]
        ELSE CASE env.paypal = "SUCCESS" ->
                    [ok |-> TRUE, effects |-> call, log |-> <<>>]
               [] env.paypal = "FAILED" ->
                    [ok |-> FALSE, effects |-> call, log |-> <<>>]
               [] env.paypal = "non200" ->
                    [ok |-> FALSE, effects |-> call,
                     log |-> <<"Failed to verify webhook signature">>]
               [] env.paypal = "Timeout" ->
                    [ok |-> FALSE, effects |-> call,
                     log |-> <<"PayPal webhook verification timed out">>]
               [] OTHER ->
                    [ok |-> FALSE, effects |-> call, log |-> raised]

\* as generate_presigned_url, but the signer is called whatever the arguments
GeneratePresignedUrl_NoInputCheck(bucket_name, object_name, expiration, s3) ==
    IF s3 = "Error"
    THEN [url |-> Absent,
          effects |-> <<S3Presign(bucket_name, object_name, expiration, s3)>>,
          log |-> <<"Error generating presigned URL">>]
    ELSE [url |-> PresignedUrl(bucket_name, object_name, expiration),
          effects |-> <<S3Presign(bucket_name, object_name, expiration, s3)>>,
          log |-> <<>>]

\* generate_presigned_url: the URL, or Absent (None) with the line printed
GeneratePresignedUrl(bucket_name, object_name, expiration, s3) ==
    IF ~Truthy(bucket_name) \/ ~Truthy(object_name)
    THEN [url |-> Absent, effects |-> <<>>,
          log |-> <<"Error generating presigned URL">>]
    ELSE IF s3 = "Error"
    THEN [url |-> Absent,
          effects |-> <<S3Presign(bucket_name.s, object_name.s, expiration, s3)>>,
          log |-> <<"Error generating presigned URL">>]
    ELSE [url |-> PresignedUrl(bucket_name.s, object_name.s, expiration),
          effects |-> <<S3Presign(bucket_name.s, object_name.s, expiration, s3)>>,
          log |-> <<>>]

\* the n-th value of str(uuid.uuid4())
RECURSIVE Uuid(_)
Uuid(n) == IF n = 0 THEN <<"u", "u", "i", "d">> ELSE Uuid(n - 1) \o <<"'">>

\* webhook_data.get('id', str(uuid.uuid4()))
OrderId_AlwaysFresh(webhook_data, fresh) == Str(fresh)

OrderId(webhook_data, fresh) ==
    IF webhook_data.id = Absent THEN Str(fresh) ELSE webhook_data.id

\* the item store_webhook_event puts (timestamp left out)
AuditItem(webhook_data, fresh) ==
    [order_id |-> OrderId(webhook_data, fresh),
     event_type |-> webhook_data.event_type,
     data |-> webhook_data]

\* Table.put_item on a table whose key is order_id
PutItem(table, item) == {r \in table : r.order_id # item.order_id} \cup {item}

NoInvocation == [pc |-> "idle", event |-> Event(Absent, BodyMissing),
                 photo_id |-> Absent, customer_email |-> Absent,
                 presigned_url |-> Absent, resp |-> NoResponse,
                 effects |-> <<>>, log |-> <<>>]

\* the invocation ends with this response
WhRespond(i, resp, effects, lines) ==
    winst' = [winst EXCEPT ![i].pc = "done", ![i].resp = resp,
                           ![i].effects = @ \o effects, ![i].log = @ \o lines]

\* webhook_handler's except clause
WhFail(i, effects, lines) ==
    WhRespond(i, InternalError, effects, lines \o <<"Error processing webhook">>)

\* the provider delivers a webhook and a free Lambda instance takes it (the
\* instances are alike: the first free one)
WhReceive(i, body) ==
    /\ winst[i].pc = "idle"
    /\ \A j \in Instances : winst[j].pc = "idle" => InstanceOrder[i] <= InstanceOrder[j]
    /\ deliveries < MaxDeliveries
    /\ deliveries' = deliveries + 1
    /\ winst' = [winst EXCEPT ![i].pc = "verify", ![i].event = Event(Absent, body)]
    /\ UNCHANGED <<audit, outbox, uuids>>

\* json.loads of the body, verify_paypal_webhook and the 400 answer
WhVerify(i, env) ==
    /\ winst[i].pc = "verify"
    /\ LET body == winst[i].event.body
           v == VerifyPaypalWebhook(env)
       IN  IF body.kind = "null" \/ body.text.json \in {"empty", "invalid"}
           THEN WhFail(i, <<>>, <<>>)
           ELSE IF ~v.ok
           THEN WhRespond(i, Response(400, "Webhook verification failed"),
                          v.effects, v.log)
           ELSE IF body.text.json # "object"
           THEN WhFail(i, v.effects, v.log)
           ELSE winst' = [winst EXCEPT ![i].pc = "prepare",
                                       ![i].effects = @ \o v.effects,
                                       ![i].log = @ \o v.log]
    /\ UNCHANGED <<audit, outbox, deliveries, uuids>>

\* the purchase's fields, the bucket and the presigned URL
WhPrepare(i, bucket_env, ssm, s3) ==
    /\ winst[i].pc = "prepare"
    /\ LET webhook_data == winst[i].event.body.text
           photo_id == webhook_data.custom_id
           customer_email == webhook_data.email
           fetch == IF bucket_env THEN <<>> ELSE <<SsmGet("s3_bucket_name", ssm)>>
           link == GeneratePresignedUrl(Str(BucketName), photo_id, S3_EXP, s3)
       IN  IF ~Truthy(customer_email) \/ ~Truthy(photo_id)
           THEN WhRespond(i, Response(400, "Missing required fields in webhook data"),
                          <<>>, <<>>)
           ELSE IF ~bucket_env /\ ssm = "Error"
           THEN WhFail(i, fetch, <<>>)
           ELSE IF ~bucket_env /\ ssm = "ClientError"
           THEN WhFail(i, fetch, <<"Failed to retrieve parameter">>)
           ELSE IF link.url = Absent
           THEN WhRespond(i, Response(500, "Failed to generate download link"),
                          fetch \o link.effects, link.log)
           ELSE winst' = [winst EXCEPT ![i].pc = "email",
                                       ![i].photo_id = photo_id,
                                       ![i].customer_email = customer_email,
                                       ![i].presigned_url = link.url,
                                       ![i].effects = @ \o fetch \o link.effects]
    /\ UNCHANGED <<audit, outbox, deliveries, uuids>>

\* send_email(customer_email, presigned_url)
WhEmail(i, sender_env, ssm, ses) ==
    /\ winst[i].pc = "email"
    /\ LET to == winst[i].customer_email.s
           fetch == IF sender_env THEN <<>> ELSE <<SsmGet("ses_sender_email", ssm)>>
           send == <<SesSend(SenderEmail, to, winst[i].presigned_url, ses)>>
           failed == <<"Error sending email">>
       IN  IF ~HasAt(to)
           THEN WhFail(i, <<>>, failed) /\ UNCHANGED outbox
           ELSE IF ~sender_env /\ ssm = "Error"
           THEN WhFail(i, fetch, failed) /\ UNCHANGED outbox
           ELSE IF ~sender_env /\ ssm = "ClientError"
           THEN WhFail(i, fetch, <<"Failed to retrieve parameter">> \o failed)
                /\ UNCHANGED outbox
           ELSE IF ses = "Error"
           THEN WhFail(i, fetch \o send, failed) /\ UNCHANGED outbox
           ELSE /\ winst' = [winst EXCEPT ![i].pc = "store",
                                          ![i].effects = @ \o fetch \o send,
                                          ![i].log = @ \o <<"Email sent successfully">>]
                /\ outbox' = Append(outbox,
                                [to |-> to, link |-> winst[i].presigned_url,
                                 webhook |-> winst[i].event.body.text.id])
    /\ UNCHANGED <<audit, deliveries, uuids>>

\* as WhStore, but a failed put_item is raised to webhook_handler
WhStore_Raises(i, put) ==
    /\ winst[i].pc = "store"
    /\ LET item == AuditItem(winst[i].event.body.text, Uuid(uuids))
           call == <<DynamoPut("PayPalWebhooks", item, put)>>
           ok == [statusCode |-> 200, error |-> "",
                  message |-> "Webhook processed successfully"]
       IN  IF put = "Error"
           THEN /\ WhFail(i, call, <<"Error storing webhook event">>)
                /\ UNCHANGED audit
           ELSE /\ WhRespond(i, ok, call, <<>>)
                /\ audit' = PutItem(audit, item)
    /\ uuids' = uuids + 1
    /\ UNCHANGED <<outbox, deliveries>>

\* store_webhook_event(webhook_data) and the 200 answer
WhStore(i, put) ==
    /\ winst[i].pc = "store"
    /\ LET item == AuditItem(winst[i].event.body.text, Uuid(uuids))
           call == <<DynamoPut("PayPalWebhooks", item, put)>>
           ok == [statusCode |-> 200, error |-> "",
                  message |-> "Webhook processed successfully"]
       IN  IF put = "Error"
           THEN /\ WhRespond(i, ok, call, <<"Error storing webhook event">>)
                /\ UNCHANGED audit
           ELSE /\ WhRespond(i, ok, call, <<>>)
                /\ audit' = PutItem(audit, item)
    /\ uuids' = uuids + 1
    /\ UNCHANGED <<outbox, deliveries>>

\* the response goes back to the provider; the instance is free again
WhReturn(i) ==
    /\ winst[i].pc = "done"
    /\ winst' = [winst EXCEPT ![i] = NoInvocation]
    /\ UNCHANGED <<audit, outbox, deliveries, uuids>>

WhIdle ==
    /\ winst = [i \in Instances |-> NoInvocation]
    /\ audit = {}
    /\ outbox = <<>>
    /\ deliveries = 0
    /\ uuids = 0

-----------------------------------------------------------------------------
(* get_hmac_key and its cache: app2.py *)

CacheTtl == 3600

\* the instants at which the clock is looked at
Times == {0, 1, CacheTtl - 1, CacheTtl, CacheTtl + 1, 2 * CacheTtl}

StoredKeys == {HmacKey, OtherKey}

NoEntry == [present |-> FALSE]
Entry(value, at) == [present |-> TRUE, value |-> value, at |-> at]
NoKeyCall == [returned |-> "nothing", value |-> Absent, fetched |-> FALSE, at |-> 0]

\* as CacheFresh, but a cached None does not count: it is fetched again
CacheFresh_ValuesOnly(entry, t) ==
    entry.present /\ entry.value # Absent /\ t < entry.at + CacheTtl

\* as CacheFresh, but an entry never expires
CacheFresh_NoExpiry(entry, t) == entry.present

\* @st.cache_data(ttl=3600): an entry serves calls until ttl seconds after it
\* was stored
CacheFresh(entry, t) == entry.present /\ t < entry.at + CacheTtl

\* get_hmac_key(): the cached value, or get_secret_from_ssm and its caching
\* (None, returned after a ClientError, is a value like any other)
GetHmacKey(ssm) ==
    /\ IF CacheFresh(kcache, now)
       THEN /\ klast' = [returned |-> "value", value |-> kcache.value,
                         fetched |-> FALSE, at |-> now]
            /\ UNCHANGED kcache
       ELSE IF ssm = "Error"
       THEN /\ klast' = [returned |-> "raise", value |-> Absent, fetched |-> TRUE,
                         at |-> now]
            /\ kcache' = NoEntry
       ELSE LET value == IF ssm = "value" THEN Str(stored) ELSE Absent
            IN  /\ klast' = [returned |-> "value", value |-> value,
                             fetched |-> TRUE, at |-> now]
                /\ kcache' = Entry(value, now)
    /\ UNCHANGED <<now, stored>>

\* time passes
Tick ==
    /\ \E t \in Times : t > now /\ now' = t
    /\ UNCHANGED <<stored, kcache, klast>>

\* the secret is rotated in the parameter store
Rotate ==
    /\ \E k \in StoredKeys : k # stored /\ stored' = k
    /\ UNCHANGED <<now, kcache, klast>>

CacheIdle ==
    /\ now = 0
    /\ stored = HmacKey
    /\ kcache = NoEntry
    /\ klast = NoKeyCall

-----------------------------------------------------------------------------
(* The client: send_signed_request in app2.py, and the API's reply *)

\* app2.py's generate_hmac_signature: ValueError on an empty key or message
AppGenerateHmacSignature(secret_key, message) ==
    IF secret_key = Absent \/ MessageBytes(message) = EmptyText
    THEN [raise |-> TRUE]
    ELSE [raise |-> FALSE,
          sig |-> Base64(HmacSha256(secret_key.s, MessageBytes(message)))]

\* data or ''
RequestData(data) ==
    IF MessageBytes(data) = EmptyText THEN BodyText(EmptyText) ELSE data

\* the body API Gateway hands to the function: null when nothing was sent
WireBody(data) == IF MessageBytes(data) = EmptyText THEN BodyNull ELSE data

RequestTypes == {"get", "post", "put"}

NoRequest == [data |-> BodyNull, request_type |-> "get"]
NoResult == [returned |-> "nothing"]

\* send_signed_request returns None after st.error(line)
ClientFail(effects, line) ==
    /\ cpc' = "returned"
    /\ cresult' = [returned |-> "None"]
    /\ ceffects' = ceffects \o effects
    /\ clog' = Append(clog, line)

\* send_signed_request up to requests.get / requests.post; the key comes
\* from get_hmac_key(), that is from its cache or from the parameter store
ClientSend(data, request_type, ssm) ==
    /\ cpc = "idle"
    /\ GetHmacKey(ssm)
    /\ creq' = [data |-> data, request_type |-> request_type]
    /\ LET fetch == IF klast'.fetched THEN <<SsmGet("hmac_key", ssm)>> ELSE <<>>
           hmac_key == klast'.value
           signed == AppGenerateHmacSignature(hmac_key, RequestData(data))
       IN  IF klast'.returned = "raise" \/ hmac_key = Absent \/ signed.raise
           THEN /\ ClientFail(fetch, "Error in send_signed_request")
                /\ UNCHANGED <<chdr, cwire>>
           ELSE IF request_type \notin {"get", "post"}
           THEN /\ ClientFail(fetch, "Error in send_signed_request")
                /\ chdr' = Text(signed.sig)
                /\ UNCHANGED cwire
           ELSE /\ chdr' = Text(signed.sig)
                /\ cwire' = Event(Text(signed.sig), WireBody(data))
                /\ cpc' = "inflight"
                /\ ceffects' = ceffects \o fetch
                /\ UNCHANGED <<cresult, clog>>
    /\ UNCHANGED vresult

\* the API validates the request and answers
ApiValidate(ssm) ==
    /\ cpc = "inflight"
    /\ vresult' = ValidateRequest(cwire, ssm).result
    /\ cpc' = "answered"
    /\ UNCHANGED <<creq, chdr, cwire, cresult, ceffects, clog>>

\* requests returns or raises; raise_for_status; the return (the endpoint
\* answers an accepted request with success)
ClientReceive(transport) ==
    /\ cpc = "answered"
    /\ IF transport = "Timeout"
       THEN ClientFail(<<>>, "Request timed out")
       ELSE IF transport = "ConnectionError" \/ vresult # Accepted
       THEN ClientFail(<<>>, "Request failed")
       ELSE /\ cresult' = [returned |-> "response"]
            /\ cpc' = "returned"
            /\ UNCHANGED <<ceffects, clog>>
    /\ UNCHANGED <<creq, chdr, cwire, vresult>>

ClientIdle ==
    /\ cpc = "idle"
    /\ creq = NoRequest
    /\ chdr = Absent
    /\ cwire = Event(Absent, BodyMissing)
    /\ cresult = NoResult
    /\ ceffects = <<>>
    /\ clog = <<>>
    /\ vresult = NoResponse

\* the caller has the result; the next call starts afresh
ClientReturn ==
    /\ cpc = "returned"
    /\ cpc' = "idle"
    /\ creq' = NoRequest
    /\ chdr' = Absent
    /\ cwire' = Event(Absent, BodyMissing)
    /\ cresult' = NoResult
    /\ ceffects' = <<>>
    /\ clog' = <<>>
    /\ vresult' = NoResponse

Transports == {"ok", "Timeout", "ConnectionError"}

-----------------------------------------------------------------------------
(* generate_presigned_url called on its own: api.py *)

\* bucket names and object keys a caller may pass
LinkBuckets == {Absent, Str(<<>>), Str(BucketName)}
LinkKeys == {Absent} \cup {Str(k) : k \in SeqsUpTo(NameChars, 2)}

\* expirations a caller may pass; S3_EXP is the default
Expirations == {0, 1, S3_EXP - 1, S3_EXP, S3_EXP + 1, 2 * S3_EXP}

NoCall == [bucket_name |-> Absent, object_name |-> Absent, expiration |-> 0]
NoLink == [url |-> Absent, effects |-> <<>>, log |-> <<>>]

\* generate_presigned_url(bucket_name, object_name, expiration)
LinkCall(bucket_name, object_name, expiration, s3) ==
    /\ lpc = "idle"
    /\ lcall' = [bucket_name |-> bucket_name, object_name |-> object_name,
                 expiration |-> expiration]
    /\ lresult' = GeneratePresignedUrl(bucket_name, object_name, expiration, s3)
    /\ lpc' = "returned"

LinkIdle ==
    /\ lpc = "idle"
    /\ lcall = NoCall
    /\ lresult = NoLink

\* the caller has the URL or None
LinkReturn ==
    /\ lpc = "returned"
    /\ lpc' = "idle"
    /\ lcall' = NoCall
    /\ lresult' = NoLink

-----------------------------------------------------------------------------
(* upload_file_to_s3: app2.py *)

InvalidChars == {"\\", "<", ">", ":", "\"", "|", "?", "*"}
UploadChars == {".", "/", ":"}
FileNames == {<<"f">>, <<".", ".", "f">>}

\* str.strip('/')
RECURSIVE Strip(_)
Strip(s) ==
    IF s = <<>> THEN s
    ELSE IF Head(s) = "/" THEN Strip(Tail(s))
    ELSE IF s[Len(s)] = "/" THEN Strip(SubSeq(s, 1, Len(s) - 1))
    ELSE s

\* validate_s3_key_name(key_name)
ValidateS3KeyName(key_name) ==
    IF key_name = <<>> THEN <<>>
    ELSE LET traversal == Replace(key_name, <<".", ".">>, <<"_">>)
             chars == [i \in 1..Len(traversal) |->
                          IF traversal[i] \in InvalidChars THEN "_"
                          ELSE traversal[i]]
         IN  Strip(chars)

\* object_name as upload_file_to_s3 builds it
ObjectName(file_name, client_name, album_name, is_zip) ==
    LET albums == <<"c", "l", "i", "e", "n", "t", "s", "/">>
                    \o ValidateS3KeyName(client_name)
                    \o <<"/", "a", "l", "b", "u", "m", "s", "/">>
                    \o ValidateS3KeyName(album_name)
    IN  IF is_zip THEN albums \o <<".", "z", "i", "p">>
        ELSE albums \o <<"/">> \o ValidateS3KeyName(file_name)

S3Upload(bucket, key, outcome) ==
    [op |-> "s3_upload", bucket |-> bucket, key |-> key, outcome |-> outcome]

UploadOutcomes == {"ok", "ClientError", "Error"}

NoUpload == [file_name |-> <<>>, client_name |-> <<>>, album_name |-> <<>>,
             is_zip |-> FALSE]

\* upload_file_to_s3(file_path, client_name, album_name, is_zip); file_name is
\* os.path.basename(file_path).  An exception other than ClientError while the
\* bucket name is fetched reaches the last handler before file_name is bound,
\* and the call raises.
UploadFileToS3(file_name, client_name, album_name, is_zip, bucket_env, ssm, s3) ==
    /\ upc = "idle"
    /\ ureq' = [file_name |-> file_name, client_name |-> client_name,
                album_name |-> album_name, is_zip |-> is_zip]
    /\ upc' = "returned"
    /\ LET fetch == IF bucket_env THEN <<>> ELSE <<SsmGet("s3_bucket_name", ssm)>>
           object_name == ObjectName(file_name, client_name, album_name, is_zip)
           upload == <<S3Upload(BucketName, object_name, s3)>>
       IN  IF ~bucket_env /\ ssm = "Error"
           THEN ueffects' = fetch /\ uresult' = "raise"
           ELSE IF ~bucket_env /\ ssm = "ClientError"
           THEN ueffects' = fetch /\ uresult' = "False"
           ELSE /\ ueffects' = fetch \o upload
                /\ uresult' = IF s3 = "ok" THEN "True" ELSE "False"

UploadIdle ==
    /\ upc = "idle"
    /\ ureq = NoUpload
    /\ ueffects = <<>>
    /\ uresult = "nothing"

\* the caller has the result
UploadReturn ==
    /\ upc = "returned"
    /\ upc' = "idle"
    /\ ureq' = NoUpload
    /\ ueffects' = <<>>
    /\ uresult' = "nothing"

-----------------------------------------------------------------------------
(* ProgressPercentage, called by the transfer's threads: app2.py *)

Threads == 1..MaxThreads

\* bytes_amount of a call: the size of a chunk read
Amounts == {1, 2}

NotCalling == [pc |-> "idle", bytes_amount |-> 0, loaded |-> 0]

Free == [held |-> FALSE]
HeldBy(t) == [held |-> TRUE, by |-> t]

\* a transfer thread calls the callback: __call__(bytes_amount)
ProgressCall(t, bytes_amount) ==
    /\ pthreads[t].pc = "idle"
    /\ Len(pcalls) < MaxCalls
    /\ pthreads' = [pthreads EXCEPT ![t] = [pc |-> "acquire",
                                            bytes_amount |-> bytes_amount,
                                            loaded |-> 0]]
    /\ pcalls' = Append(pcalls, bytes_amount)
    /\ UNCHANGED <<plock, pseen, preported>>

\* as ProgressAcquire, but the thread goes on without holding the lock
ProgressAcquire_NoLock(t) ==
    /\ pthreads[t].pc = "acquire"
    /\ pthreads' = [pthreads EXCEPT ![t].pc = "load"]
    /\ UNCHANGED <<plock, pseen, pcalls, preported>>

\* with self._lock: the thread waits until the lock is free and takes it
ProgressAcquire(t) ==
    /\ pthreads[t].pc = "acquire"
    /\ plock = Free
    /\ plock' = HeldBy(t)
    /\ pthreads' = [pthreads EXCEPT ![t].pc = "load"]
    /\ UNCHANGED <<pseen, pcalls, preported>>

\* self._seen_so_far += bytes_amount, first half: the attribute is read
ProgressLoad(t) ==
    /\ pthreads[t].pc = "load"
    /\ pthreads' = [pthreads EXCEPT ![t].pc = "store", ![t].loaded = pseen]
    /\ UNCHANGED <<plock, pseen, pcalls, preported>>

\* second half: the sum is written back
ProgressStore(t) ==
    /\ pthreads[t].pc = "store"
    /\ pseen' = pthreads[t].loaded + pthreads[t].bytes_amount
    /\ pthreads' = [pthreads EXCEPT ![t].pc = "write"]
    /\ UNCHANGED <<plock, pcalls, preported>>

\* sys.stdout.write of the counter (and the percentage)
ProgressWrite(t) ==
    /\ pthreads[t].pc = "write"
    /\ preported' = Append(preported, [by |-> t, seen |-> pseen])
    /\ pthreads' = [pthreads EXCEPT ![t].pc = "release"]
    /\ UNCHANGED <<plock, pseen, pcalls>>

\* the with block ends: the lock is released and __call__ returns
ProgressRelease(t) ==
    /\ pthreads[t].pc = "release"
    /\ plock' = IF plock = HeldBy(t) THEN Free ELSE plock
    /\ pthreads' = [pthreads EXCEPT ![t] = NotCalling]
    /\ UNCHANGED <<pseen, pcalls, preported>>

\* ProgressPercentage.__init__
ProgressIdle ==
    /\ plock = Free
    /\ pseen = 0
    /\ pthreads = [t \in Threads |-> NotCalling]
    /\ pcalls = <<>>
    /\ preported = <<>>

-----------------------------------------------------------------------------
(* Specifications *)

ZipNext ==
    \/ ZipInvoke /\ UNCHANGED <<wvars, cvars, lvars, kvars, uvars, pvars>>
    \/ ZipValidate /\ UNCHANGED <<wvars, cvars, lvars, kvars, uvars, pvars>>
    \/ ZipPrepare /\ UNCHANGED <<wvars, cvars, lvars, kvars, uvars, pvars>>
    \/ ZipPackage /\ UNCHANGED <<wvars, cvars, lvars, kvars, uvars, pvars>>
    \/ ZipStore /\ UNCHANGED <<wvars, cvars, lvars, kvars, uvars, pvars>>
    \/ ZipEmail /\ UNCHANGED <<wvars, cvars, lvars, kvars, uvars, pvars>>
    \/ ZipReturn /\ UNCHANGED <<wvars, cvars, lvars, kvars, uvars, pvars>>

Init ==
    /\ ZipIdle /\ WhIdle /\ ClientIdle /\ LinkIdle /\ CacheIdle /\ UploadIdle
    /\ ProgressIdle

\* zip_handler, one invocation after another
SpecZip == Init /\ [][ZipNext]_vars

\* webhook_handler on one instance, every outcome of every collaborator
WebhookNext ==
    \/ \E body \in WebhookBodies : WhReceive("i1", body) /\ UNCHANGED <<zvars, cvars, lvars, kvars, uvars, pvars>>
    \/ \E env \in VerifyEnvs : WhVerify("i1", env) /\ UNCHANGED <<zvars, cvars, lvars, kvars, uvars, pvars>>
    \/ \E bucket_env \in BOOLEAN, ssm \in SsmOutcomes, s3 \in CallOutcomes :
          WhPrepare("i1", bucket_env, ssm, s3) /\ UNCHANGED <<zvars, cvars, lvars, kvars, uvars, pvars>>
    \/ \E sender_env \in BOOLEAN, ssm \in SsmOutcomes, ses \in CallOutcomes :
          WhEmail("i1", sender_env, ssm, ses) /\ UNCHANGED <<zvars, cvars, lvars, kvars, uvars, pvars>>
    \/ \E put \in CallOutcomes : WhStore("i1", put) /\ UNCHANGED <<zvars, cvars, lvars, kvars, uvars, pvars>>
    \/ WhReturn("i1") /\ UNCHANGED <<zvars, cvars, lvars, kvars, uvars, pvars>>

SpecWebhook == Init /\ [][WebhookNext]_vars

\* verified deliveries: the credentials are provisioned, the provider answers
VerifiedEnvs == {env \in VerifyEnvs : Provisioned(env) /\ env.paypal = "SUCCESS"}

\* purchases: a photo and a payer address are named
PurchaseBodies ==
    {BodyText(WebhookObject(id, c, e)) :
        id \in EventIds, c \in {Str(<<"p">>)}, e \in PayerEmails \ {Absent}}

\* webhook deliveries handled concurrently by the instances
RedeliveryNext ==
    \/ \E i \in Instances, body \in PurchaseBodies :
          WhReceive(i, body) /\ UNCHANGED <<zvars, cvars, lvars, kvars, uvars, pvars>>
    \/ \E i \in Instances, env \in VerifiedEnvs :
          WhVerify(i, env) /\ UNCHANGED <<zvars, cvars, lvars, kvars, uvars, pvars>>
    \/ \E i \in Instances, bucket_env \in BOOLEAN, ssm \in SsmOutcomes,
          s3 \in CallOutcomes :
          WhPrepare(i, bucket_env, ssm, s3) /\ UNCHANGED <<zvars, cvars, lvars, kvars, uvars, pvars>>
    \/ \E i \in Instances, sender_env \in BOOLEAN, ssm \in SsmOutcomes,
          ses \in CallOutcomes :
          WhEmail(i, sender_env, ssm, ses) /\ UNCHANGED <<zvars, cvars, lvars, kvars, uvars, pvars>>
    \/ \E i \in Instances, put \in CallOutcomes : WhStore(i, put) /\ UNCHANGED <<zvars, cvars, lvars, kvars, uvars, pvars>>
    \/ \E i \in Instances : WhReturn(i) /\ UNCHANGED <<zvars, cvars, lvars, kvars, uvars, pvars>>

SpecRedelivery == Init /\ [][RedeliveryNext]_vars

ClientTexts ==
    {BodyNull, BodyText(EmptyText), BodyText(InvalidJson), BodyText(JsonArray)}

\* a call of send_signed_request: data is None, '' or another text
ClientCall ==
    /\ cpc = "idle"
    /\ \/ \E b \in ClientTexts, rt \in RequestTypes, ssm \in SsmOutcomes :
             ClientSend(b, rt, ssm)
       \/ \E c \in NameVals(MaxNameChars) :
             \E a \in NameVals(MaxNameChars - NameSize(c)) :
               \E e \in ZipEmails, rt \in RequestTypes, ssm \in SsmOutcomes :
                 ClientSend(BodyText(JsonObject(c, a, e)), rt, ssm)

\* signed requests of the client, validated by the API
SignNext ==
    \/ ClientCall /\ UNCHANGED <<zvars, wvars, lvars, uvars, pvars>>
    \/ \E ssm \in SsmOutcomes : ApiValidate(ssm) /\ UNCHANGED <<zvars, wvars, lvars, kvars, uvars, pvars>>
    \/ \E t \in Transports : ClientReceive(t) /\ UNCHANGED <<zvars, wvars, lvars, kvars, uvars, pvars>>
    \/ ClientReturn /\ UNCHANGED <<zvars, wvars, lvars, kvars, uvars, pvars>>

SpecSign == Init /\ [][SignNext]_vars


\* Every call is alone: generate_presigned_url called directly, zip_handler
\* and webhook_handler run one at a time (they share no state), the direct
\* calls and the album requests before the first webhook.
NoneRunning == zpc = "idle" /\ lpc = "idle" /\ winst["i1"].pc = "idle"

LinkNext ==
    \/ /\ NoneRunning /\ deliveries = 0
       /\ \E b \in LinkBuckets, k \in LinkKeys, t \in Expirations, s3 \in CallOutcomes :
             LinkCall(b, k, t, s3)
       /\ UNCHANGED <<zvars, wvars, cvars, kvars, uvars, pvars>>
    \/ LinkReturn /\ UNCHANGED <<zvars, wvars, cvars, kvars, uvars, pvars>>
    \/ /\ NoneRunning /\ deliveries = 0
       /\ ZipInvoke
       /\ UNCHANGED <<wvars, cvars, lvars, kvars, uvars, pvars>>
    \/ (ZipValidate \/ ZipPrepare) /\ UNCHANGED <<wvars, cvars, lvars, kvars, uvars, pvars>>
    \/ (ZipPackage \/ ZipStore) /\ UNCHANGED <<wvars, cvars, lvars, kvars, uvars, pvars>>
    \/ (ZipEmail \/ ZipReturn) /\ UNCHANGED <<wvars, cvars, lvars, kvars, uvars, pvars>>
    \/ /\ NoneRunning
       /\ \E body \in WebhookBodies : WhReceive("i1", body)
       /\ UNCHANGED <<zvars, cvars, lvars, kvars, uvars, pvars>>
    \/ /\ \/ \E env \in VerifyEnvs : WhVerify("i1", env)
          \/ \E bucket_env \in BOOLEAN, ssm \in SsmOutcomes, s3 \in CallOutcomes :
                WhPrepare("i1", bucket_env, ssm, s3)
       /\ UNCHANGED <<zvars, cvars, lvars, kvars, uvars, pvars>>
    \/ /\ \/ \E sender_env \in BOOLEAN, ssm \in SsmOutcomes, ses \in CallOutcomes :
                WhEmail("i1", sender_env, ssm, ses)
          \/ \E put \in CallOutcomes : WhStore("i1", put)
          \/ WhReturn("i1")
       /\ UNCHANGED <<zvars, cvars, lvars, kvars, uvars, pvars>>

SpecLink == Init /\ [][LinkNext]_vars

\* get_hmac_key called again and again while time passes and the key rotates
CacheNext ==
    \/ \E ssm \in SsmOutcomes : GetHmacKey(ssm) /\ UNCHANGED <<zvars, wvars, cvars, lvars, uvars, pvars>>
    \/ Tick /\ UNCHANGED <<zvars, wvars, cvars, lvars, uvars, pvars>>
    \/ Rotate /\ UNCHANGED <<zvars, wvars, cvars, lvars, uvars, pvars>>

SpecCache == Init /\ [][CacheNext]_vars

\* uploads of photos and bundles; the names of an upload have at most
\* MaxNameChars characters together
UploadCall ==
    /\ upc = "idle"
    /\ \E c \in SeqsUpTo(UploadChars, MaxNameChars) :
         \E a \in SeqsUpTo(UploadChars, MaxNameChars - Len(c)) :
           \E f \in FileNames, is_zip \in BOOLEAN, bucket_env \in BOOLEAN,
              ssm \in SsmOutcomes, s3 \in UploadOutcomes :
             UploadFileToS3(f, c, a, is_zip, bucket_env, ssm, s3)

UploadNext ==
    \/ UploadCall /\ UNCHANGED <<zvars, wvars, cvars, lvars, kvars, pvars>>
    \/ UploadReturn /\ UNCHANGED <<zvars, wvars, cvars, lvars, kvars, pvars>>

SpecUpload == Init /\ [][UploadNext]_vars


\* the threads of one upload, in any interleaving
ProgressNext ==
    \/ \E t \in Threads, b \in Amounts :
          ProgressCall(t, b) /\ UNCHANGED <<zvars, wvars, cvars, lvars, kvars, uvars>>
    \/ \E t \in Threads : ProgressAcquire(t) /\ UNCHANGED <<zvars, wvars, cvars, lvars, kvars, uvars>>
    \/ \E t \in Threads : ProgressLoad(t) /\ UNCHANGED <<zvars, wvars, cvars, lvars, kvars, uvars>>
    \/ \E t \in Threads : ProgressStore(t) /\ UNCHANGED <<zvars, wvars, cvars, lvars, kvars, uvars>>
    \/ \E t \in Threads : ProgressWrite(t) /\ UNCHANGED <<zvars, wvars, cvars, lvars, kvars, uvars>>
    \/ \E t \in Threads : ProgressRelease(t) /\ UNCHANGED <<zvars, wvars, cvars, lvars, kvars, uvars>>

SpecProgress == Init /\ [][ProgressNext]_vars


\* a call of send_signed_request with a text and no names
ClientPing ==
    /\ cpc = "idle"
    /\ \E b \in ClientTexts, rt \in RequestTypes, ssm \in SsmOutcomes :
          ClientSend(b, rt, ssm)

\* signed requests of the client while time passes and the parameter store
\* fails and recovers
OutageNext ==
    \/ ClientPing /\ UNCHANGED <<zvars, wvars, lvars, uvars, pvars>>
    \/ \E ssm \in SsmOutcomes : ApiValidate(ssm) /\ UNCHANGED <<zvars, wvars, lvars, kvars, uvars, pvars>>
    \/ \E t \in Transports : ClientReceive(t) /\ UNCHANGED <<zvars, wvars, lvars, kvars, uvars, pvars>>
    \/ ClientReturn /\ UNCHANGED <<zvars, wvars, lvars, kvars, uvars, pvars>>
    \/ Tick /\ UNCHANGED <<zvars, wvars, cvars, lvars, uvars, pvars>>

SpecOutage == Init /\ [][OutageNext]_vars

-----------------------------------------------------------------------------
(* Properties of zip_handler, under SpecZip *)

ZSignature == zevent.headers.X_Signature
ZInvoked == zpc # "idle"
ZReturned == zpc = "done"

\* the invocation fetched the HMAC key, with this outcome
ZKeyFetch(outcome) ==
    /\ Len(zeffects) >= 1
    /\ zeffects[1] = SsmGet("hmac_key", outcome)

ZCalled(op) == \E i \in 1..Len(zeffects) : zeffects[i].op = op

DotDot == <<".", ".">>
Slash == <<"/">>

\* no path segment of the key is '..'
NoDotDotSegment(path) ==
    ~Contains(Slash \o path \o Slash, Slash \o DotDot \o Slash)

C3_MismatchIs403 ==
    (/\ ZReturned
     /\ ~HeaderFalsy(ZSignature)
     /\ ZKeyFetch("value")
     /\ ZSignature.x # ApiGenerateHmacSignature(HmacKey, RequestContent(zevent)))
    => (zresp.statusCode = 403 /\ Len(zeffects) = 1)

\* C4: with X-Signature present and the HMAC key not retrievable, whatever the
\* signature, the answer is 500 (never 401 or 403) and nothing else is called.
C4_SecretUnavailableIs500 ==
    (/\ ZInvoked
     /\ ~HeaderFalsy(ZSignature)
     /\ (ZKeyFetch("ClientError") \/ ZKeyFetch("Error")))
    => (ZReturned /\ zresp.statusCode = 500 /\ Len(zeffects) = 1)

\* C4 witness: a correctly signed request answered 500 because the parameter
\* store refused the key
C4_Witness ==
    /\ ZReturned
    /\ ZKeyFetch("ClientError")
    /\ ZSignature = Text(ApiGenerateHmacSignature(HmacKey, zevent.body))
    /\ zresp = Response(500, "Failed to retrieve HMAC key")

\* the request passed validation and the field checks: the keys are built
ZAccepted == zpc \in {"package", "store", "email"} \/ (ZReturned /\ ZCalled("zip_album"))

\* C9 as stated: for every accepted client_name and album_name, the album
\* directory and the key zipped-albums/{client}/{album}.zip contain no '..'
\* and no leading '/', and no sanitized name contains '/'.
C9_NoDotDotInKey ==
    ZAccepted =>
        /\ ~Contains(zlocals.client_name.s, Slash)
        /\ ~Contains(zlocals.album_name.s, Slash)
        /\ ~Contains(zlocals.album_dir, DotDot)
        /\ ~Contains(zlocals.zip_file_key, DotDot)
        /\ ~StartsWith(zlocals.album_dir, Slash)
        /\ ~StartsWith(zlocals.zip_file_key, Slash)

\* C9 amended: no sanitized name contains '/' or '..'; the album directory
\* contains no '..' and no leading '/'; the key has no leading '/' and no '..'
\* path segment, and up to its '.zip' suffix it contains no '..' (a '..' can
\* only arise where a name ending in '.' meets the suffix).
C9_SanitizedKey ==
    ZAccepted =>
        LET key == zlocals.zip_file_key
        IN  /\ ~Contains(zlocals.client_name.s, Slash)
            /\ ~Contains(zlocals.album_name.s, Slash)
            /\ ~Contains(zlocals.client_name.s, DotDot)
            /\ ~Contains(zlocals.album_name.s, DotDot)
            /\ ~Contains(zlocals.album_dir, DotDot)
            /\ ~StartsWith(zlocals.album_dir, Slash)
            /\ ~StartsWith(key, Slash)
            /\ NoDotDotSegment(key)
            /\ ~Contains(SubSeq(key, 1, Len(key) - 4), DotDot)
            /\ key = ZipFileKey(zlocals.client_name.s, zlocals.album_name.s)

\* C9 witness: a request naming client '../' was accepted and its key built
C9_Witness ==
    /\ zpc = "package"
    /\ zevent.body.text.client_name = Str(<<".", ".", "/">>)
    /\ zlocals.client_name = Str(<<"_", "_">>)

-----------------------------------------------------------------------------
(* Properties of webhook_handler on one instance, under SpecWebhook *)

W == winst["i1"]

WCalls(ops) == {k \in 1..Len(W.effects) : W.effects[k].op \in ops}

\* the provider was asked and did not answer 200 with SUCCESS
WProviderRefused ==
    \E k \in WCalls({"paypal_verify"}) : W.effects[k].outcome # "SUCCESS"

\* a credential fetch came back None
WCredentialMissing ==
    \E k \in WCalls({"ssm_get"}) :
        /\ W.effects[k].name \in
              {"paypal_client_id", "paypal_client_secret", "paypal_webhook_id"}
        /\ W.effects[k].outcome = "ClientError"

WLogged(line) == \E k \in 1..Len(W.log) : W.log[k] = line

\* C5: when the provider's verification call returns a non-200 status, a 200
\* whose verification_status is not SUCCESS, times out or fails in transport,
\* the invocation answers 400 and issues no link, sends no email and writes no
\* audit record.
C5_UnverifiedWebhookIs400 ==
    WProviderRefused =>
        /\ W.pc = "done"
        /\ W.resp = Response(400, "Webhook verification failed")
        /\ WCalls({"s3_presign", "ses_send", "dynamo_put"}) = {}

\* C5 witness: the provider answered 200 with FAILED and the webhook got 400
C5_Witness ==
    /\ W.pc = "done"
    /\ \E k \in WCalls({"paypal_verify"}) : W.effects[k].outcome = "FAILED"
    /\ W.resp.statusCode = 400

\* C6: when one of paypal_client_id, paypal_client_secret, paypal_webhook_id is
\* missing, verification fails without a call to the provider and without
\* link, email or audit record; the log says so ("Failed to retrieve
\* parameter", and "Failed to retrieve PayPal credentials from SSM" once all
\* three fetches returned), lines that never accompany a refusal by the
\* provider.  The HTTP answer is the same 400.
C6_MissingCredentialFailsClosed ==
    /\ WCredentialMissing =>
          /\ W.pc = "done"
          /\ W.resp = Response(400, "Webhook verification failed")
          /\ WCalls({"paypal_verify", "s3_presign", "ses_send", "dynamo_put"}) = {}
          /\ WLogged("Failed to retrieve parameter")
          /\ (\A k \in WCalls({"ssm_get"}) : W.effects[k].outcome # "Error")
                => WLogged("Failed to retrieve PayPal credentials from SSM")
    /\ WProviderRefused =>
          /\ ~WLogged("Failed to retrieve PayPal credentials from SSM")
          /\ ~WLogged("Failed to retrieve parameter")

\* C6 witness: only paypal_webhook_id is missing and the webhook got 400
C6_Witness ==
    /\ W.pc = "done"
    /\ W.effects = <<SsmGet("paypal_client_id", "value"),
                     SsmGet("paypal_client_secret", "value"),
                     SsmGet("paypal_webhook_id", "ClientError")>>
    /\ W.resp.statusCode = 400

\* C10 as stated: every object key handed to the link issuer is built from
\* sanitized name components: none contributes '..' or a path separator.
C10_KeysSanitized ==
    \A k \in WCalls({"s3_presign"}) :
        /\ ~Contains(W.effects[k].key, DotDot)
        /\ ~Contains(W.effects[k].key, Slash)

-----------------------------------------------------------------------------
(* Properties of redelivery, under SpecRedelivery *)

Sent(id) == {k \in 1..Len(outbox) : outbox[k].webhook = id}

\* C7 as stated: at most one email is sent per event id, however the
\* deliveries of an event are ordered or interleaved.
C7_OneEmailPerEventId ==
    \A id \in EventIds \ {Absent} : Cardinality(Sent(id)) <= 1

\* C8 as stated: the audit table holds at most one record per webhook event:
\* redelivering the same payload adds no record, also when it has no id.
C8_OneRecordPerEvent ==
    \A r1, r2 \in audit : r1.data = r2.data => r1 = r2

\* C8 amended: the audit table holds at most one record per event id: a
\* payload that carries an id is stored under that id, and redelivering it
\* replaces the record.  (A payload without id is stored under a fresh uuid
\* at every delivery.)
C8_OneRecordPerEventId ==
    \A r1, r2 \in audit :
        r1.data.id # Absent =>
            /\ r1.order_id = r1.data.id
            /\ r1.data.id = r2.data.id => r1 = r2

\* an instance has answered after storing the event id under put outcome ok
Stored(i, id) ==
    /\ winst[i].pc = "done"
    /\ \E k \in 1..Len(winst[i].effects) :
          /\ winst[i].effects[k].op = "dynamo_put"
          /\ winst[i].effects[k].outcome = "ok"
          /\ winst[i].effects[k].item.data.id = id

\* C8 witness: both instances stored event E1 and the table holds one record
C8_Witness ==
    /\ Stored("i1", Str(<<"E", "1">>))
    /\ Stored("i2", Str(<<"E", "1">>))
    /\ Cardinality(audit) = 1

-----------------------------------------------------------------------------
(* Properties of request signing, under SpecSign *)

CKeyFetched == ceffects = <<SsmGet("hmac_key", "value")>>

\* C2 as stated: for every message, the empty message of a body-less GET
\* included, the client attaches an X-Signature that validate_request, holding
\* the same secret, accepts.
C2_ClientSignatureAccepted ==
    (cpc # "idle" /\ CKeyFetched /\ creq.request_type \in {"get", "post"}) =>
        /\ chdr # Absent
        /\ ValidateRequest(Event(chdr, WireBody(creq.data)), "value").result = Accepted

-----------------------------------------------------------------------------
(* Properties of link issuing, under SpecLink *)

LReturned == lpc = "returned"
ZLogged(line) == \E k \in 1..Len(zlog) : zlog[k] = line

\* C11 as stated: whatever expiration the caller passes, the link that
\* generate_presigned_url issues expires at most S3_EXP (3600) seconds after
\* it was issued.
C11_LinkTtlCapped ==
    (LReturned /\ lresult.url # Absent) => lresult.url.ttl <= S3_EXP

\* C12: generate_presigned_url called with an empty (or missing) bucket or
\* key fails (returns None after printing the error) without calling the
\* signer; a handler whose generate_presigned_url call failed answers 500 and
\* neither sends an email nor writes a record.
C12_InvalidTargetFails ==
    /\ (LReturned /\ (~Truthy(lcall.bucket_name) \/ ~Truthy(lcall.object_name)))
          => /\ lresult.url = Absent
             /\ lresult.effects = <<>>
             /\ lresult.log = <<"Error generating presigned URL">>
    /\ (ZReturned /\ ZLogged("Error generating presigned URL"))
          => /\ zresp.statusCode = 500
             /\ ~ZCalled("dynamo_put")
             /\ ~ZCalled("ses_send")
    /\ (W.pc = "done" /\ WLogged("Error generating presigned URL"))
          => /\ W.resp.statusCode = 500
             /\ WCalls({"ses_send", "dynamo_put"}) = {}

\* C12 witness: a call with an empty bucket name and a key has returned None
C12_Witness ==
    /\ LReturned
    /\ lcall.bucket_name = Str(<<>>)
    /\ Truthy(lcall.object_name)
    /\ lresult.url = Absent

-----------------------------------------------------------------------------
(* Properties of the album delivery, under SpecZip *)

ZOps(ops) == {k \in 1..Len(zeffects) : zeffects[k].op \in ops}

\* the request is validly signed and names a client, an album and an address
ZWellFormed ==
    /\ zevent.body.kind = "text"
    /\ zevent.body.text.json = "object"
    /\ ZSignature = Text(ApiGenerateHmacSignature(HmacKey, RequestContent(zevent)))
    /\ LET body == zevent.body.text
       IN  /\ IsStr(body.client_name) /\ Truthy(body.client_name)
           /\ IsStr(body.album_name) /\ Truthy(body.album_name)
           /\ IsStr(body.email) /\ HasAt(body.email.s)

\* every call the invocation made succeeded
ZAllSucceeded ==
    \A k \in ZOps({"ssm_get", "s3_presign", "dynamo_put", "ses_send"}) :
        zeffects[k].outcome \in {"value", "ok"}

\* the link was issued, then the record written, then the email sent
ZLinkRecordEmail ==
    \E l, r, e \in 1..Len(zeffects) :
        /\ l < r /\ r < e
        /\ zeffects[l].op = "s3_presign"
        /\ zeffects[r].op = "dynamo_put"
        /\ zeffects[e].op = "ses_send"

\* C13 as stated: for a validly signed, well-formed request with every
\* collaborator succeeding, the archive is created, then uploaded, then the
\* link issued, the record written and the email sent, and the answer is 200
\* with the download link.
C13_DeliveryOrder ==
    (ZReturned /\ ZWellFormed /\ ZAllSucceeded) =>
        /\ zresp.statusCode = 200
        /\ zresp.download_link = zlocals.presigned_url
        /\ ZLinkRecordEmail
        /\ \E a, u \in 1..Len(zeffects) :
              /\ a < u
              /\ zeffects[a].op = "zip_create"
              /\ zeffects[u].op = "s3_upload"
              /\ \A l \in ZOps({"s3_presign"}) : u < l

\* the AlbumDetails record of the request was written
ZRecordWritten ==
    \E k \in ZOps({"dynamo_put"}) : zeffects[k].outcome = "ok"

\* C14: whenever zip_handler answers 500 for a failure before the email step
\* (the key fetch, the body, the bucket name, the archive and link step, the
\* record write), no email has been sent and no AlbumDetails record has been
\* written for the request.
C14_FailureBeforeEmailLeavesNothing ==
    (ZReturned /\ zresp.statusCode = 500 /\ ~ZLogged("Error sending email")) =>
        /\ ~ZCalled("ses_send")
        /\ ~ZRecordWritten

\* C14 witness: a well-formed request failed in the archive and link step
\* and was answered 500
C14_Witness ==
    /\ ZReturned
    /\ ZWellFormed
    /\ ZCalled("zip_album")
    /\ ~ZCalled("dynamo_put")
    /\ zresp.statusCode = 500

-----------------------------------------------------------------------------
(* Properties of the purchase delivery, under SpecWebhook *)

WAuditFailed ==
    \E k \in WCalls({"dynamo_put"}) : W.effects[k].outcome = "Error"

\* the email of this invocation was accepted by SES, with the link issued
WDelivered ==
    /\ W.presigned_url # Absent
    /\ \E e \in WCalls({"ses_send"}) :
          /\ W.effects[e].outcome = "ok"
          /\ W.effects[e].link = W.presigned_url
    /\ outbox # <<>>
    /\ outbox[Len(outbox)].link = W.presigned_url

\* C15: when the audit write of store_webhook_event fails, the failure is
\* printed and swallowed: the verified webhook, whose link was issued and
\* whose email was sent, is still answered 200.
C15_AuditFailureSwallowed ==
    WAuditFailed =>
        /\ W.pc = "done"
        /\ W.resp.statusCode = 200
        /\ WLogged("Error storing webhook event")
        /\ WDelivered

\* C15 witness: the audit write failed and the webhook was answered 200
C15_Witness ==
    /\ W.pc = "done"
    /\ WAuditFailed
    /\ W.resp.statusCode = 200
    /\ audit = {}

\* C16 as stated: a verified webhook has a link issued and an email sent only
\* when it is a capture whose resource state is "completed".
C16_OnlyCompletedDelivers ==
    WCalls({"s3_presign", "ses_send"}) # {} =>
        /\ W.event.body.text.state = "completed"
        /\ W.event.body.text.event_type = "PAYMENT.CAPTURE.COMPLETED"

-----------------------------------------------------------------------------
(* Properties of the album email, under SpecZip *)

\* send_email_with_download_link failed, after the link was issued and the
\* record stored
ZEmailFailed == ZReturned /\ ZLogged("Error sending email")

\* C17 as stated: in zip_handler an email failure after the link was issued
\* and the record stored is not fatal: the answer is still the 200 success.
C17_EmailFailureNotFatal ==
    ZEmailFailed => zresp.statusCode = 200

\* C17 amended: in zip_handler an email failure after the link was issued and
\* the record stored is fatal: the answer is 500 "Internal server error", no
\* email was accepted, and the AlbumDetails record stays written.
C17_EmailFailureIs500 ==
    ZEmailFailed =>
        /\ zresp = InternalError
        /\ ZRecordWritten
        /\ zlocals.presigned_url # Absent
        /\ \A k \in ZOps({"ses_send"}) : zeffects[k].outcome # "ok"

\* C17 witness: SES refused the email and the request was answered 500
C17_Witness ==
    /\ ZReturned
    /\ \E k \in ZOps({"ses_send"}) : zeffects[k].outcome = "Error"
    /\ zresp.statusCode = 500

-----------------------------------------------------------------------------
(* Properties of the key cache, under SpecCache *)

\* a get_hmac_key call has just returned (or raised)
KCalled == <<kcache, klast>>' # <<kcache, klast>> /\ now' = now /\ stored' = stored

\* C18: a get_hmac_key call made less than 3600 seconds after the cached
\* fetch returns the value fetched then without contacting the parameter
\* store, whatever the store holds by now; a call made when no fetch is
\* cached, or 3600 seconds or more after it, fetches from the store again.
C18_CacheWindow ==
    [][KCalled =>
         IF kcache.present /\ now < kcache.at + CacheTtl
         THEN /\ klast'.returned = "value"
              /\ klast'.value = kcache.value
              /\ ~klast'.fetched
              /\ kcache' = kcache
         ELSE /\ klast'.fetched
              /\ klast'.returned = "value" =>
                    kcache' = Entry(klast'.value, now)]_vars

\* C18 witness: one second before the entry expires, and after the key was
\* rotated, a call returned the old key without fetching
C18_Witness ==
    /\ kcache.present
    /\ now = kcache.at + CacheTtl - 1
    /\ klast.at = now
    /\ ~klast.fetched
    /\ klast.value = Str(HmacKey)
    /\ stored = OtherKey

-----------------------------------------------------------------------------
(* Properties of the order of record and email, under SpecLink *)

ZRecordBeforeEmail ==
    \A e \in ZOps({"ses_send"}) : \E r \in ZOps({"dynamo_put"}) : r < e

WRecordBeforeEmail ==
    \A e \in WCalls({"ses_send"}) : \E r \in WCalls({"dynamo_put"}) : r < e

\* C19 as stated: in zip_handler and in webhook_handler alike, the record
\* write is attempted before the notification email is sent.
C19_RecordBeforeEmail == ZRecordBeforeEmail /\ WRecordBeforeEmail

-----------------------------------------------------------------------------
(* Properties of the bundle's key, under SpecUpload *)

UBundleStored ==
    /\ upc = "returned"
    /\ ureq.is_zip
    /\ ureq.client_name # <<>>
    /\ ureq.album_name # <<>>
    /\ \E k \in 1..Len(ueffects) : ueffects[k].op = "s3_upload"

\* C20 as stated: the key under which upload_file_to_s3 stores the bundle of
\* (client, album) is the key zipped-albums/{client}/{album}.zip for which
\* zip_handler issues the download link of the same client and album.
C20_LinkKeyIsUploadKey ==
    UBundleStored =>
        \A k \in 1..Len(ueffects) :
            ueffects[k].op = "s3_upload" =>
                ueffects[k].key = ZipFileKey(SanitizeName(ureq.client_name),
                                             SanitizeName(ureq.album_name))

-----------------------------------------------------------------------------
(* Properties of the progress counter, under SpecProgress *)

RECURSIVE Sum(_)
Sum(seq) == IF seq = <<>> THEN 0 ELSE Head(seq) + Sum(Tail(seq))

PAllReturned == \A t \in Threads : pthreads[t].pc = "idle"

\* C21: with the transfer's threads calling one ProgressPercentage in any
\* interleaving, no increment is lost: once every call has returned the
\* counter is the sum of all bytes_amount arguments, and the counter values
\* written out never decrease.
C21_NoLostIncrement ==
    /\ PAllReturned => pseen = Sum(pcalls)
    /\ \A i, j \in 1..Len(preported) :
          i < j => preported[i].seen <= preported[j].seen

\* C21 witness: every call has returned, every thread has reported, and the
\* counter stands at the sum of the arguments
C21_Witness ==
    /\ PAllReturned
    /\ Len(pcalls) = MaxCalls
    /\ {preported[i].by : i \in 1..Len(preported)} = Threads
    /\ pseen = Sum(pcalls)
    /\ pseen > MaxCalls

-----------------------------------------------------------------------------
(* Properties of the client during an outage, under SpecOutage *)

\* send_signed_request has just been called
CSent == cpc = "idle" /\ cpc' # "idle"

\* C22: once get_hmac_key has cached the None of a failed fetch, every
\* send_signed_request made less than 3600 seconds after that fetch fails
\* (returns None, nothing is signed or sent) without contacting the parameter
\* store, whether or not the store would answer by now.
C22_FailedFetchIsCached ==
    [][(/\ CSent
        /\ kcache.present
        /\ kcache.value = Absent
        /\ now < kcache.at + CacheTtl) =>
          /\ cpc' = "returned"
          /\ cresult' = [returned |-> "None"]
          /\ ceffects' = <<>>
          /\ chdr' = Absent
          /\ cwire' = cwire
          /\ kcache' = kcache]_vars

\* C22 witness: one second before the cached None expires, a request has
\* failed without a fetch
C22_Witness ==
    /\ cpc = "returned"
    /\ cresult = [returned |-> "None"]
    /\ ceffects = <<>>
    /\ kcache.present
    /\ kcache.value = Absent
    /\ now = kcache.at + CacheTtl - 1
    /\ klast.at = now
    /\ ~klast.fetched

====
